---- MODULE Spec2Model ----
(***************************************************************************)
(* Model of the profile-matching service: the HTTP handlers of main.py,    *)
(* the VectorDatabase methods of vector_db.py, the EmbeddingService of     *)
(* embedding_service.py and the request schemas of models.py.              *)
(*                                                                         *)
(* Representation:                                                         *)
(*   - Optional[T] is a set: {} is None, {x} is the value x.               *)
(*   - a description is a sequence of characters, so that str.strip() is   *)
(*     computed; names, locations and ids are strings.                     *)
(*   - an embedding is a pair of integers of Euclidean norm 5 standing for *)
(*     a unit vector scaled by 5; a distance or a similarity score is an   *)
(*     integer number of 1/25ths (squared L2 distance of the scaled        *)
(*     vectors), so the float 1.0 is 25.                                   *)
(*   - a datetime is [sec, usec]; its ISO string is <<sec>> when usec = 0  *)
(*     and <<sec, usec>> otherwise, as datetime.isoformat() drops a zero   *)
(*     fraction.                                                           *)
(***************************************************************************)
EXTENDS Integers, Sequences, FiniteSets, TLC

VARIABLES
    collection,        \* the Chroma collection: entries in insertion order
    issued,            \* how many ids successful adds have handed out
    neMatchesMissing,  \* the store build's answer to {"$ne": v} on an absent key
    last,              \* the last request and its response
    pc,                \* event loop: where each in-flight request stands
    loop,              \* event loop: the request whose handler it is running
    direct             \* the last direct call of an EmbeddingService method

vars == <<collection, issued, neMatchesMissing, last, pc, loop, direct>>

\* The variables of the service's data, of the event loop, of direct calls.
dataVars == <<collection, issued, neMatchesMissing, last>>
loopVars == <<pc, loop>>

-----------------------------------------------------------------------------
(* Bounds of the model *)

MaxProfiles == 2
MaxRequests == 2

(* Schema constants of models.py and the handler caps of main.py *)

NameMinLen == 1
NameMaxLen == 100
DescMinLen == 10
DescMaxLen == 2000
AgeMin == 18
AgeMax == 100
LocationMaxLen == 100
SearchLimitMin == 1
SearchLimitMax == 50
SearchHandlerCap == 50
ListHandlerCap == 1000

-----------------------------------------------------------------------------
(* Values *)

None == {}
Some(x) == {x}
TheValue(opt) == CHOOSE x \in opt : TRUE

Min(a, b) == IF a <= b THEN a ELSE b

Rep(c, n) == [i \in 1..n |-> c]

\* Descriptions a client can send.
DescHiking == <<" ">> \o Rep("h", 10) \o <<" ">>
DescPhoto == Rep("p", 10)
DescBlank == Rep(" ", 10)
DescShort == Rep("h", 3)

IdNames == <<"u1", "u2", "u3", "u4", "u5", "u6">>

\* uuid4() values are opaque and never repeat: the n-th one drawn by a
\* successful add is named IdNames[n].
UuidPool == {IdNames[n] : n \in 1..Min(MaxProfiles, Len(IdNames))}

IsSpace(c) == c \in {" ", "\t", "\n"}

RECURSIVE LStrip(_)
LStrip(s) == IF s /= <<>> /\ IsSpace(Head(s)) THEN LStrip(Tail(s)) ELSE s

RECURSIVE RStrip(_)
RStrip(s) ==
    IF s /= <<>> /\ IsSpace(s[Len(s)]) THEN RStrip(SubSeq(s, 1, Len(s) - 1)) ELSE s

Strip(s) == RStrip(LStrip(s))

\* Readings of datetime.now(): one on a whole second, one not.
NowInputs == {[sec |-> 7, usec |-> 0], [sec |-> 7, usec |-> 500000]}

IsoFormat(dt) == IF dt.usec = 0 THEN <<dt.sec>> ELSE <<dt.sec, dt.usec>>

FromIsoFormat(s) ==
    IF Len(s) = 1 THEN [sec |-> s[1], usec |-> 0] ELSE [sec |-> s[1], usec |-> s[2]]

-----------------------------------------------------------------------------
(* models.py: request validation done by the framework before a handler runs *)

ValidProfileCreate(p) ==
    /\ Len(p.name) >= NameMinLen /\ Len(p.name) <= NameMaxLen
    /\ Len(p.description) >= DescMinLen /\ Len(p.description) <= DescMaxLen
    /\ \A a \in p.age : a >= AgeMin /\ a <= AgeMax
    /\ \A l \in p.location : Len(l) <= LocationMaxLen

ValidSearchRequest(r) ==
    /\ Len(r.query_description) >= DescMinLen /\ Len(r.query_description) <= DescMaxLen
    /\ r.limit >= SearchLimitMin /\ r.limit <= SearchLimitMax

-----------------------------------------------------------------------------
(* embedding_service.py *)

\* The pretrained model: a deterministic map from text to a unit vector.
Encode(text) ==
    CASE text[1] = "h" -> <<5, 0>>
      [] text[1] = "p" -> <<-3, 4>>
      [] OTHER -> <<3, 4>>

\* Faulty variant: the text is tested and encoded as given, untrimmed.
GenerateEmbeddingUntrimmed(text, modelFails) ==
    IF text = <<>> THEN [raised |-> TRUE, value |-> <<>>, encoded |-> <<>>]
    ELSE IF modelFails THEN [raised |-> TRUE, value |-> <<>>, encoded |-> <<text>>]
    ELSE [raised |-> FALSE, value |-> Encode(text), encoded |-> <<text>>]

\* generate_embedding: raised, the value returned, and the texts handed to
\* self.model.encode
GenerateEmbedding(text, modelFails) ==
    LET t == Strip(text) IN
    IF t = <<>> THEN [raised |-> TRUE, value |-> <<>>, encoded |-> <<>>]
    ELSE IF modelFails THEN [raised |-> TRUE, value |-> <<>>, encoded |-> <<t>>]
    ELSE [raised |-> FALSE, value |-> Encode(t), encoded |-> <<t>>]

\* A float as a fraction num/den with den > 0.
Frac(num, den) == [num |-> num, den |-> den]

FracLess(a, b) == a.num * b.den < b.num * a.den

\* Python's min(a, b) and max(a, b): the first argument unless the second
\* is strictly smaller (greater).
PyMin(a, b) == IF FracLess(b, a) THEN b ELSE a
PyMax(a, b) == IF FracLess(a, b) THEN b ELSE a

RECURSIVE DotFrom(_, _, _)
DotFrom(a, b, i) == IF i > Len(a) THEN 0 ELSE a[i] * b[i] + DotFrom(a, b, i + 1)

\* np.dot of two vectors of the same length
Dot(a, b) == DotFrom(a, b, 1)

\* np.linalg.norm, for the vectors whose norm is a whole number
Norm(v) == CHOOSE n \in 0..Dot(v, v) : n * n = Dot(v, v)

\* Faulty variant: the cosine is returned as computed, without the clamp.
ComputeSimilarityUnclamped(embedding1, embedding2) ==
    IF Len(embedding1) /= Len(embedding2) THEN Frac(0, 1)
    ELSE IF Norm(embedding1) = 0 \/ Norm(embedding2) = 0 THEN Frac(0, 1)
    ELSE Frac(Dot(embedding1, embedding2), Norm(embedding1) * Norm(embedding2))

\* compute_similarity; np.dot raises on vectors of different lengths and the
\* except branch returns 0.0.
ComputeSimilarity(embedding1, embedding2) ==
    IF Len(embedding1) /= Len(embedding2) THEN Frac(0, 1)
    ELSE LET dot_product == Dot(embedding1, embedding2)
             norm1 == Norm(embedding1)
             norm2 == Norm(embedding2)
         IN IF norm1 = 0 \/ norm2 = 0 THEN Frac(0, 1)
            ELSE PyMax(Frac(0, 1), PyMin(Frac(1, 1), Frac(dot_product, norm1 * norm2)))

-----------------------------------------------------------------------------
(* The Chroma collection, as vector_db.py uses it *)

\* Squared L2 distance, the collection's default space (create_collection is
\* given no "hnsw:space"), in 1/25ths.
Distance(a, b) == (a[1] - b[1]) * (a[1] - b[1]) + (a[2] - b[2]) * (a[2] - b[2])

\* collection.add(ids, embeddings, documents, metadatas)
CollectionAdd(coll, id, embedding, document, metadata) ==
    Append(coll, [id |-> id, embedding |-> embedding, document |-> document,
                  metadata |-> metadata])

\* collection.get(ids=[id]): the rows with that id
CollectionGetById(coll, id) == SelectSeq(coll, LAMBDA e : e.id = id)

\* collection.get(limit=limit): the first rows in the store's order
CollectionGetLimit(coll, limit) == SubSeq(coll, 1, Min(limit, Len(coll)))

\* collection.delete(ids=[id]): removes the rows with that id; an absent id
\* is no error
CollectionDelete(coll, id) == SelectSeq(coll, LAMBDA e : e.id /= id)

\* collection.count()
CollectionCount(coll) == Len(coll)

\* A where clause {key: {"$ne": value}} applied to one row's metadata; the
\* clause None matches every row.
WhereMatches(metadata, where, neOnMissing) ==
    \A w \in where :
        IF w.key \in DOMAIN metadata THEN metadata[w.key] /= w.ne ELSE neOnMissing

\* collection.query(query_embeddings=[q], n_results=n, where=where): every
\* answer the store can give, each a sequence of row numbers, nearest first,
\* ties in any order.
CollectionQuery(coll, q, n, where, neOnMissing) ==
    LET matching == {i \in 1..Len(coll) :
                        WhereMatches(coll[i].metadata, where, neOnMissing)}
        k == Min(n, Cardinality(matching))
        d(i) == Distance(q, coll[i].embedding)
    IN {s \in [1..k -> matching] :
            /\ \A i, j \in 1..k : i < j => s[i] /= s[j] /\ d(s[i]) <= d(s[j])
            /\ \A m \in matching :
                   (\A i \in 1..k : s[i] /= m) => \A i \in 1..k : d(s[i]) <= d(m)}

-----------------------------------------------------------------------------
(* vector_db.py: the VectorDatabase methods.  Each yields                  *)
(*   raised: whether the method raised,  value: what it returned,          *)
(*   coll: the collection afterwards,    calls: the store calls it made,   *)
(*   fault: which collaborator failed inside it ("none", "embedding",      *)
(*          "store").                                                      *)

StoreCall(fn, n) == [fn |-> fn, n |-> n]

Outcome(raised, value, coll, calls, fault) ==
    [raised |-> raised, value |-> value, coll |-> coll, calls |-> calls,
     fault |-> fault]

\* Python truthiness of an Optional[str]: None and "" are false.
Truthy(opt) == opt /= None /\ opt /= Some("")

\* Faulty variant: the stripped text that is embedded is also what is stored.
StoredDocumentStripped(profile) == Strip(profile.description)

\* The document stored for a profile.
StoredDocument(profile) == profile.description

\* Faulty variant: the id is derived from the number of stored profiles.
IdFromCount(issuedBefore, coll) == IdNames[Len(coll) + 1]

\* profile_id = str(uuid.uuid4()): a value no earlier call returned.
Uuid4(issuedBefore, coll) == IdNames[issuedBefore + 1]

\* The metadata stored for a profile.
StoredMetadata(profile, now) ==
    [name |-> profile.name, age |-> profile.age, location |-> profile.location,
     created_at |-> IsoFormat(now)]

\* Faulty variant: the entry is written even though the embedding step raised.
AddPersonProfileStoresAnyway(coll, profile, profile_id, now, modelFails, storeFails) ==
    LET embedding == GenerateEmbedding(profile.description, modelFails)
        call == StoreCall("add", 1)
    IN IF embedding.raised
       THEN Outcome(TRUE, "",
                    CollectionAdd(coll, profile_id, <<0, 0>>,
                                  StoredDocument(profile),
                                  StoredMetadata(profile, now)),
                    <<call>>, "embedding")
       ELSE IF storeFails
       THEN Outcome(TRUE, "", coll, <<call>>, "store")
       ELSE Outcome(FALSE, profile_id,
                    CollectionAdd(coll, profile_id, embedding.value,
                                  StoredDocument(profile),
                                  StoredMetadata(profile, now)),
                    <<call>>, "none")

\* add_person_profile
AddPersonProfile(coll, profile, profile_id, now, modelFails, storeFails) ==
    LET embedding == GenerateEmbedding(profile.description, modelFails)
        call == StoreCall("add", 1)
    IN IF embedding.raised
       THEN Outcome(TRUE, "", coll, <<>>, "embedding")
       ELSE IF storeFails
       THEN Outcome(TRUE, "", coll, <<call>>, "store")
       ELSE Outcome(FALSE, profile_id,
                    CollectionAdd(coll, profile_id, embedding.value,
                                  StoredDocument(profile),
                                  StoredMetadata(profile, now)),
                    <<call>>, "none")

\* PersonProfile(id=..., name=metadata['name'], description=document, ...)
PersonProfile(profile_id, document, metadata) ==
    [id |-> profile_id, name |-> metadata.name, description |-> document,
     age |-> metadata.age, location |-> metadata.location,
     created_at |-> Some(FromIsoFormat(metadata.created_at))]

GetPersonProfile(coll, profile_id, storeFails) ==
    LET result == CollectionGetById(coll, profile_id)
        call == StoreCall("get", 1)
    IN IF storeFails
       THEN Outcome(FALSE, None, coll, <<call>>, "store")
       ELSE IF result = <<>>
       THEN Outcome(FALSE, None, coll, <<call>>, "none")
       ELSE Outcome(FALSE,
                    Some(PersonProfile(profile_id, result[1].document,
                                       result[1].metadata)),
                    coll, <<call>>, "none")

\* where_clause of search_similar_profiles
WhereClause(exclude_id) ==
    IF Truthy(exclude_id) THEN Some([key |-> "id", ne |-> TheValue(exclude_id)])
    ELSE None

\* n_results of search_similar_profiles
NResults(limit, exclude_id) == limit + (IF Truthy(exclude_id) THEN 1 ELSE 0)

\* Faulty variant: the distance itself is reported as the score.
SimilarityScoreIsDistance(distance) == distance

\* similarity_score = 1.0 - distance
SimilarityScore(distance) == 5 * 5 - distance

PersonProfileResponse(profile_id, document, metadata, distance) ==
    [id |-> profile_id, name |-> metadata.name, description |-> document,
     age |-> metadata.age, location |-> metadata.location,
     created_at |-> FromIsoFormat(metadata.created_at),
     similarity_score |-> SimilarityScore(distance)]

\* Faulty variant: the loop relies on the where clause and skips nothing.
SkipsNoHit(exclude_id, profile_id) == FALSE

\* Whether the result loop skips a hit.
SkipsHit(exclude_id, profile_id) ==
    Truthy(exclude_id) /\ profile_id = TheValue(exclude_id)

\* Faulty variant: the loop does not stop at limit results.
RECURSIVE ProcessResultsNoBreak(_, _, _, _, _)
ProcessResultsNoBreak(rows, i, similar_profiles, limit, exclude_id) ==
    IF i > Len(rows) THEN similar_profiles
    ELSE IF SkipsHit(exclude_id, rows[i].id)
    THEN ProcessResultsNoBreak(rows, i + 1, similar_profiles, limit, exclude_id)
    ELSE ProcessResultsNoBreak(
             rows, i + 1,
             Append(similar_profiles,
                    PersonProfileResponse(rows[i].id, rows[i].document,
                                          rows[i].metadata, rows[i].distance)),
             limit, exclude_id)

\* The result loop of search_similar_profiles over the store's rows.
RECURSIVE ProcessResults(_, _, _, _, _)
ProcessResults(rows, i, similar_profiles, limit, exclude_id) ==
    IF i > Len(rows) THEN similar_profiles
    ELSE IF SkipsHit(exclude_id, rows[i].id)
    THEN ProcessResults(rows, i + 1, similar_profiles, limit, exclude_id)
    ELSE LET appended ==
                 Append(similar_profiles,
                        PersonProfileResponse(rows[i].id, rows[i].document,
                                              rows[i].metadata, rows[i].distance))
         IN IF Len(appended) >= limit THEN appended
            ELSE ProcessResults(rows, i + 1, appended, limit, exclude_id)

\* The rows of one store answer: results['distances'][0], ['documents'][0], ...
ResultRows(coll, q, answer) ==
    [i \in 1..Len(answer) |->
        [id |-> coll[answer[i]].id, document |-> coll[answer[i]].document,
         metadata |-> coll[answer[i]].metadata,
         distance |-> Distance(q, coll[answer[i]].embedding)]]

\* The answers the store can give to the query of search_similar_profiles.
SearchAnswers(coll, query_description, limit, exclude_id, neOnMissing) ==
    IF Strip(query_description) = <<>> THEN {<<>>}
    ELSE CollectionQuery(coll, Encode(Strip(query_description)),
                         NResults(limit, exclude_id), WhereClause(exclude_id),
                         neOnMissing)

SearchSimilarProfiles(coll, query_description, limit, exclude_id, answer, modelFails, storeFails) ==
    LET query_embedding == GenerateEmbedding(query_description, modelFails)
        call == StoreCall("query", NResults(limit, exclude_id))
    IN IF query_embedding.raised
       THEN Outcome(TRUE, <<>>, coll, <<>>, "embedding")
       ELSE IF storeFails
       THEN Outcome(TRUE, <<>>, coll, <<call>>, "store")
       ELSE Outcome(FALSE,
                    ProcessResults(ResultRows(coll, query_embedding.value, answer),
                                   1, <<>>, limit, exclude_id),
                    coll, <<call>>, "none")

\* Faulty variant: the limit is not handed to the store.
GetAllProfilesNoLimit(coll, limit, storeFails) ==
    LET call == StoreCall("get", limit)
    IN IF storeFails \/ limit < 0
       THEN Outcome(TRUE, <<>>, coll, <<call>>, "store")
       ELSE Outcome(FALSE,
                    [i \in 1..Len(coll) |->
                        PersonProfile(coll[i].id, coll[i].document,
                                      coll[i].metadata)],
                    coll, <<call>>, "none")

\* get_all_profiles; the store rejects a negative limit.
GetAllProfiles(coll, limit, storeFails) ==
    LET call == StoreCall("get", limit)
        results == CollectionGetLimit(coll, limit)
    IN IF storeFails \/ limit < 0
       THEN Outcome(TRUE, <<>>, coll, <<call>>, "store")
       ELSE Outcome(FALSE,
                    [i \in 1..Len(results) |->
                        PersonProfile(results[i].id, results[i].document,
                                      results[i].metadata)],
                    coll, <<call>>, "none")

\* Faulty variant: success is reported without the entry being removed.
DeletePersonProfileKeeps(coll, profile_id, storeFails) ==
    LET call == StoreCall("delete", 1)
    IN IF storeFails
       THEN Outcome(FALSE, FALSE, coll, <<call>>, "store")
       ELSE Outcome(FALSE, TRUE, coll, <<call>>, "none")

\* Faulty variant: the delete is not restricted to the id given.
DeletePersonProfileAll(coll, profile_id, storeFails) ==
    LET call == StoreCall("delete", 1)
    IN IF storeFails
       THEN Outcome(FALSE, FALSE, coll, <<call>>, "store")
       ELSE Outcome(FALSE, TRUE, <<>>, <<call>>, "none")

DeletePersonProfile(coll, profile_id, storeFails) ==
    LET call == StoreCall("delete", 1)
    IN IF storeFails
       THEN Outcome(FALSE, FALSE, coll, <<call>>, "store")
       ELSE Outcome(FALSE, TRUE, CollectionDelete(coll, profile_id), <<call>>, "none")

GetCollectionStats(coll, storeFails) ==
    LET call == StoreCall("count", 1)
    IN IF storeFails
       THEN Outcome(FALSE, [error |-> "store"], coll, <<call>>, "store")
       ELSE Outcome(FALSE,
                    [total_profiles |-> CollectionCount(coll),
                     collection_name |-> "person_profiles",
                     persist_directory |-> "./chroma_db"],
                    coll, <<call>>, "none")

-----------------------------------------------------------------------------
(* main.py: the HTTP handlers.  Each yields the status code and body sent, *)
(* with the collection afterwards, the store calls made and the fault.     *)

Response(code, body, r) ==
    [code |-> code, body |-> body, coll |-> r.coll, calls |-> r.calls,
     fault |-> r.fault]

\* A request the framework or the handler answers without calling the service.
Rejected(code, detail, coll) ==
    [code |-> code, body |-> [detail |-> detail], coll |-> coll, calls |-> <<>>,
     fault |-> "none"]

\* POST /profiles
PostProfiles(coll, profile, profile_id, now, modelFails, storeFails) ==
    IF ~ValidProfileCreate(profile) THEN Rejected(422, "validation", coll)
    ELSE LET r == AddPersonProfile(coll, profile, profile_id, now, modelFails,
                                   storeFails)
         IN IF r.raised THEN Response(500, [detail |-> "Failed to add profile"], r)
            ELSE Response(200, [message |-> "Profile added successfully",
                                profile_id |-> r.value, status |-> "success"], r)

\* GET /profiles/{profile_id}
GetProfilesId(coll, profile_id, storeFails) ==
    LET r == GetPersonProfile(coll, profile_id, storeFails)
    IN IF r.raised THEN Response(500, [detail |-> "Failed to retrieve profile"], r)
       ELSE IF r.value = None THEN Response(404, [detail |-> "not found"], r)
       ELSE Response(200, TheValue(r.value), r)

\* POST /profiles/search
PostProfilesSearch(coll, request, answer, modelFails, storeFails) ==
    IF ~ValidSearchRequest(request) THEN Rejected(422, "validation", coll)
    ELSE IF request.limit > SearchHandlerCap
    THEN Rejected(400, "Limit cannot exceed 50", coll)
    ELSE LET r == SearchSimilarProfiles(coll, request.query_description,
                                        request.limit, request.exclude_id, answer,
                                        modelFails, storeFails)
         IN IF r.raised
            THEN Response(500, [detail |-> "Failed to search profiles"], r)
            ELSE Response(200, [query |-> request.query_description,
                                results |-> r.value,
                                total_results |-> Len(r.value)], r)

\* Faulty variant: the cap is tested with >= instead of >.
GetProfilesCapOffByOne(coll, limit, storeFails) ==
    IF limit >= ListHandlerCap THEN Rejected(400, "Limit cannot exceed 1000", coll)
    ELSE LET r == GetAllProfiles(coll, limit, storeFails)
         IN IF r.raised
            THEN Response(500, [detail |-> "Failed to retrieve profiles"], r)
            ELSE Response(200, r.value, r)

\* GET /profiles?limit=
GetProfiles(coll, limit, storeFails) ==
    IF limit > ListHandlerCap THEN Rejected(400, "Limit cannot exceed 1000", coll)
    ELSE LET r == GetAllProfiles(coll, limit, storeFails)
         IN IF r.raised
            THEN Response(500, [detail |-> "Failed to retrieve profiles"], r)
            ELSE Response(200, r.value, r)

\* DELETE /profiles/{profile_id}
DeleteProfilesId(coll, profile_id, storeFails) ==
    LET r == DeletePersonProfile(coll, profile_id, storeFails)
    IN IF r.raised THEN Response(500, [detail |-> "Failed to delete profile"], r)
       ELSE IF ~r.value THEN Response(404, [detail |-> "not found"], r)
       ELSE Response(200, [message |-> "Profile deleted successfully",
                           profile_id |-> profile_id, status |-> "success"], r)

\* GET /stats
GetStats(coll, storeFails) ==
    LET r == GetCollectionStats(coll, storeFails)
    IN IF r.raised THEN Response(500, [detail |-> "Failed to get stats"], r)
       ELSE Response(200, r.value, r)

\* GET /health
GetHealth(coll, storeFails) ==
    LET r == GetCollectionStats(coll, storeFails)
    IN IF r.raised
       THEN Response(200, [status |-> "unhealthy", database |-> "disconnected",
                           error |-> "store"], r)
       ELSE Response(200, [status |-> "healthy", database |-> "connected",
                           stats |-> r.value], r)

-----------------------------------------------------------------------------
(* Requests *)

ProfileInputs ==
    { [name |-> "Alex", description |-> DescHiking, age |-> Some(30),
       location |-> Some("Paris")],
      [name |-> "Sarah", description |-> DescPhoto, age |-> None,
       location |-> None],
      [name |-> "Blank", description |-> DescBlank, age |-> Some(AgeMax),
       location |-> Some("")],
      [name |-> "", description |-> DescShort, age |-> Some(AgeMin - 1),
       location |-> None] }

IdInputs == UuidPool \cup {"nobody"}

ExcludeInputs == {None, Some("")} \cup {Some(i) : i \in IdInputs}

SearchLimits == {1, MaxProfiles, SearchLimitMax + 1}

SearchInputs ==
    [query_description : {DescHiking}, limit : SearchLimits,
     exclude_id : ExcludeInputs]

ListLimits == {-1, 0, 1, MaxProfiles, ListHandlerCap, ListHandlerCap + 1}

\* What fails inside a request: nothing, the embedding model, or the store.
Failures == {"none", "embedding", "store"}

Request(op, arg, resp) ==
    [op |-> op, arg |-> arg, code |-> resp.code, body |-> resp.body,
     calls |-> resp.calls, fault |-> resp.fault]

\* Vectors handed to compute_similarity: of norm 0, 1 and 5, of two lengths.
SimilarityInputs ==
    { <<0, 0>>, <<1, 0>>, <<5, 0>>, <<0, 5>>, <<3, 4>>, <<4, 3>>, <<-3, 4>>,
      <<-5, 0>>, <<-4, -3>>, <<0, -1>>, <<0>>, <<5>>, <<-1>> }

\* Texts handed to generate_embedding.
TextInputs ==
    {<<>>, <<" ">>, <<"\t", "\n">>, DescBlank, DescHiking, DescPhoto, DescShort,
     <<" ", "p">>, <<"h", " ", "p", "\n">>}

\* The requests the event loop serves.
Requests == 1..MaxRequests

\* The blocking calls a handler makes, in order.
BlockingCalls(op) ==
    IF op \in {"add", "search"} THEN <<"embedding", "store">> ELSE <<"store">>

Operations == {"add", "get", "search", "list", "delete", "stats", "health"}

-----------------------------------------------------------------------------
(* The state machine *)

DataInit ==
    /\ collection = <<>>
    /\ issued = 0
    /\ neMatchesMissing \in BOOLEAN
    /\ last = [op |-> "none", arg |-> None, code |-> 0, body |-> None,
               calls |-> <<>>, fault |-> "none"]

LoopInit ==
    /\ pc = [r \in Requests |-> [stage |-> "idle", op |-> "none", at |-> 0]]
    /\ loop = None

CallInit == direct = [fn |-> "none"]

Init == DataInit /\ LoopInit /\ CallInit

AddProfile ==
    /\ issued < Cardinality(UuidPool)
    /\ \E profile \in ProfileInputs, now \in NowInputs, failure \in Failures :
        LET profile_id == Uuid4(issued, collection)
            resp == PostProfiles(collection, profile, profile_id, now,
                                 failure = "embedding", failure = "store")
        IN /\ collection' = resp.coll
           /\ issued' = IF resp.code = 200 THEN issued + 1 ELSE issued
           /\ last' = Request("add", profile, resp)
           /\ UNCHANGED <<neMatchesMissing, loopVars, direct>>

GetProfile ==
    \E profile_id \in IdInputs, storeFails \in BOOLEAN :
        LET resp == GetProfilesId(collection, profile_id, storeFails)
        IN /\ last' = Request("get", profile_id, resp)
           /\ collection' = resp.coll
           /\ UNCHANGED <<issued, neMatchesMissing, loopVars, direct>>

SearchMatches ==
    \E request \in SearchInputs, failure \in Failures :
        \E answer \in SearchAnswers(collection, request.query_description,
                                    request.limit, request.exclude_id,
                                    neMatchesMissing) :
            LET resp == PostProfilesSearch(collection, request, answer,
                                           failure = "embedding", failure = "store")
            IN /\ last' = Request("search", request, resp)
               /\ collection' = resp.coll
               /\ UNCHANGED <<issued, neMatchesMissing, loopVars, direct>>

ListProfiles ==
    \E limit \in ListLimits, storeFails \in BOOLEAN :
        LET resp == GetProfiles(collection, limit, storeFails)
        IN /\ last' = Request("list", limit, resp)
           /\ collection' = resp.coll
           /\ UNCHANGED <<issued, neMatchesMissing, loopVars, direct>>

DeleteProfile ==
    \E profile_id \in IdInputs, storeFails \in BOOLEAN :
        LET resp == DeleteProfilesId(collection, profile_id, storeFails)
        IN /\ last' = Request("delete", profile_id, resp)
           /\ collection' = resp.coll
           /\ UNCHANGED <<issued, neMatchesMissing, loopVars, direct>>

Stats ==
    \E storeFails \in BOOLEAN :
        LET resp == GetStats(collection, storeFails)
        IN /\ last' = Request("stats", None, resp)
           /\ collection' = resp.coll
           /\ UNCHANGED <<issued, neMatchesMissing, loopVars, direct>>

Health ==
    \E storeFails \in BOOLEAN :
        LET resp == GetHealth(collection, storeFails)
        IN /\ last' = Request("health", None, resp)
           /\ collection' = resp.coll
           /\ UNCHANGED <<issued, neMatchesMissing, loopVars, direct>>

Next ==
    \/ AddProfile
    \/ GetProfile
    \/ SearchMatches
    \/ ListProfiles
    \/ DeleteProfile
    \/ Stats
    \/ Health

Spec == Init /\ [][Next]_vars

-----------------------------------------------------------------------------
(* Direct calls of the EmbeddingService methods *)

GenerateEmbeddingCall ==
    /\ \E text \in TextInputs, modelFails \in BOOLEAN :
           LET r == GenerateEmbedding(text, modelFails)
           IN direct' = [fn |-> "generate_embedding", text |-> text,
                       modelFails |-> modelFails, raised |-> r.raised,
                       value |-> r.value, encoded |-> r.encoded]
    /\ UNCHANGED <<dataVars, loopVars>>

ComputeSimilarityCall ==
    /\ \E embedding1 \in SimilarityInputs, embedding2 \in SimilarityInputs :
           direct' = [fn |-> "compute_similarity", embedding1 |-> embedding1,
                    embedding2 |-> embedding2,
                    value |-> ComputeSimilarity(embedding1, embedding2)]
    /\ UNCHANGED <<dataVars, loopVars>>

EmbeddingNext ==
    \/ GenerateEmbeddingCall
    \/ ComputeSimilarityCall

SpecEmbedding == Init /\ [][EmbeddingNext]_vars

-----------------------------------------------------------------------------
(* The event loop that runs the handlers of main.py.  Every handler is an  *)
(* "async def" that calls the VectorDatabase method directly, with no       *)
(* await: once the loop starts a handler it runs that handler, its         *)
(* embedding call and its store call included, until the response.         *)

\* A client sends a request.
Arrive(r) ==
    /\ pc[r].stage = "idle"
    /\ \E op \in Operations :
           pc' = [pc EXCEPT ![r] = [stage |-> "arrived", op |-> op, at |-> 0]]
    /\ UNCHANGED <<loop, dataVars, direct>>

\* The loop, running no handler, starts the handler of a request: the
\* handler enters its first blocking call.
Start(r) ==
    /\ pc[r].stage = "arrived"
    /\ loop = None
    /\ loop' = Some(r)
    /\ pc' = [pc EXCEPT ![r] = [stage |-> BlockingCalls(pc[r].op)[1],
                                op |-> pc[r].op, at |-> 1]]
    /\ UNCHANGED <<dataVars, direct>>

\* The blocking call of the running handler returns: the handler enters its
\* next call, or returns its response and the loop is free again.
Return(r) ==
    /\ loop = Some(r)
    /\ pc[r].at >= 1
    /\ IF pc[r].at < Len(BlockingCalls(pc[r].op))
       THEN /\ pc' = [pc EXCEPT ![r] =
                         [stage |-> BlockingCalls(pc[r].op)[pc[r].at + 1],
                          op |-> pc[r].op, at |-> pc[r].at + 1]]
            /\ UNCHANGED loop
       ELSE /\ pc' = [pc EXCEPT ![r] =
                         [stage |-> "responded", op |-> pc[r].op, at |-> 0]]
            /\ loop' = None
    /\ UNCHANGED <<dataVars, direct>>

LoopNext ==
    \E r \in Requests :
        \/ Arrive(r)
        \/ Start(r)
        \/ Return(r)

SpecLoop == Init /\ [][LoopNext]_vars

-----------------------------------------------------------------------------
(* Properties *)

HasId(coll, id) == \E i \in 1..Len(coll) : coll[i].id = id

\* The float 1.0 in the model's unit of 1/25.
One == 5 * 5

\* The embedding of the last search request's query.
LastQuery == Encode(Strip(last.arg.query_description))

\* C1: after any sequence of adds and deletes, when AddProfile returns an id,
\* GetProfile on that id answers with a profile whose id is the returned id,
\* whose name, description, age and location are the ones given, and whose
\* created_at is set.
C1_AddThenGet ==
    [][(last'.op = "add" /\ last'.code = 200) =>
          LET got == GetProfilesId(collection', last'.body.profile_id, FALSE)
          IN /\ got.code = 200
             /\ got.body.id = last'.body.profile_id
             /\ got.body.name = last'.arg.name
             /\ got.body.description = last'.arg.description
             /\ got.body.age = last'.arg.age
             /\ got.body.location = last'.arg.location
             /\ got.body.created_at /= None]_vars

\* C1 witness: an add of a profile whose description has surrounding
\* whitespace succeeded after an earlier add and a delete.
C1_Witness ==
    /\ last.op = "add" /\ last.code = 200
    /\ last.arg.description = DescHiking
    /\ issued = 2 /\ Len(collection) = 1

\* C2: a delete of an id that is not in the store is answered 404 (the
\* store layer returning False), and a delete is answered 200 only when the
\* entry existed and was removed.
C2_DeleteAbsentIsNotFound ==
    [][last'.op = "delete" =>
          /\ ~HasId(collection, last'.arg) => last'.code = 404
          /\ last'.code = 200 =>
                 HasId(collection, last'.arg) /\ ~HasId(collection', last'.arg)]_vars

\* C3: a search with exclude_id = X returns no result whose id is X, when X
\* is among the limit+1 stored profiles nearest to the query.
C3_ExcludedNeverReturned ==
    (/\ last.op = "search" /\ last.code = 200
     /\ last.arg.exclude_id /= None
     /\ \E i \in 1..Len(collection) :
            /\ collection[i].id = TheValue(last.arg.exclude_id)
            /\ Cardinality({j \in 1..Len(collection) :
                    Distance(LastQuery, collection[j].embedding)
                        < Distance(LastQuery, collection[i].embedding)})
                   <= last.arg.limit)
    => \A k \in 1..Len(last.body.results) :
           last.body.results[k].id /= TheValue(last.arg.exclude_id)

\* C3 witness: the excluded profile is the nearest one of a store of two, and
\* the search returned the other one.
C3_Witness ==
    /\ last.op = "search" /\ last.code = 200
    /\ last.arg.exclude_id /= None
    /\ Len(collection) = 2
    /\ \E i \in 1..Len(collection) :
           /\ collection[i].id = TheValue(last.arg.exclude_id)
           /\ Distance(LastQuery, collection[i].embedding) = 0
    /\ Len(last.body.results) = 1
    /\ last.body.results[1].similarity_score < One

\* C4: a search with limit k and no exclude_id on a store of at least k
\* profiles returns exactly k results, the k nearest ones in nearest-first
\* order, with similarity_score = 1 - distance non-increasing along the list.
C4_ExactlyLimitNearestFirst ==
    (/\ last.op = "search" /\ last.code = 200
     /\ last.arg.exclude_id = None
     /\ Len(collection) >= last.arg.limit)
    => LET results == last.body.results
           dist(id) == Distance(LastQuery,
                                (CHOOSE e \in {collection[i] : i \in 1..Len(collection)} :
                                    e.id = id).embedding)
       IN /\ Len(results) = last.arg.limit
          /\ \A i \in 1..Len(results) :
                 /\ HasId(collection, results[i].id)
                 /\ results[i].similarity_score = One - dist(results[i].id)
          /\ \A i, j \in 1..Len(results) :
                 i < j => /\ results[i].id /= results[j].id
                          /\ results[i].similarity_score >= results[j].similarity_score
          /\ \A m \in 1..Len(collection) :
                 (\A i \in 1..Len(results) : results[i].id /= collection[m].id)
                    => \A i \in 1..Len(results) :
                           dist(results[i].id) <= dist(collection[m].id)

\* C4 witness: limit 2 on a store of two profiles at different distances.
C4_Witness ==
    /\ last.op = "search" /\ last.code = 200
    /\ last.arg.exclude_id = None /\ last.arg.limit = 2
    /\ Len(collection) >= 2
    /\ Len(last.body.results) = 2
    /\ last.body.results[1].similarity_score > last.body.results[2].similarity_score

\* C5: every result of a search carries a similarity_score between 0 and 1.
C5_ScoreInUnitRange ==
    (last.op = "search" /\ last.code = 200)
    => \A i \in 1..Len(last.body.results) :
           /\ last.body.results[i].similarity_score >= 0
           /\ last.body.results[i].similarity_score <= One

\* C6: for add, get, search, list, delete and stats, a failure of the store or
\* of the embedding provider is answered with 500.
C6_FailureIsInternalError ==
    (/\ last.op \in {"add", "get", "search", "list", "delete", "stats"}
     /\ last.fault \in {"store", "embedding"})
    => last.code = 500

\* C7: GET /health is never answered with an error, and when the store fails
\* during the check the body reports "unhealthy".
C7_HealthReportsStoreFailure ==
    last.op = "health"
    => /\ last.code = 200
       /\ last.fault = "store" => last.body.status = "unhealthy"

\* C8: POST /profiles/search with limit > 50 is answered 400 and the store is
\* not queried.
C8_SearchLimitOverCapIs400 ==
    (last.op = "search" /\ last.arg.limit > 50)
    => last.code = 400 /\ last.calls = <<>>

\* C9: GET /profiles with limit > 1000 is answered 400 without reading the
\* store, and every limit <= 1000 is handed to the store unchanged.
C9_ListLimitCap ==
    last.op = "list"
    => IF last.arg > 1000
       THEN last.code = 400 /\ last.calls = <<>>
       ELSE last.code /= 400 /\ last.calls = <<[fn |-> "get", n |-> last.arg]>>

\* C9 witness: both sides of the cap are answered on a store that holds
\* profiles: here the limit just above it.
C9_Witness ==
    /\ last.op = "list" /\ last.arg = 1001 /\ last.code = 400
    /\ Len(collection) > 0

\* C10: a listing with limit >= 0 on a store of n profiles returns exactly
\* min(limit, n) entries, each a different profile that is in the store.
C10_ListReturnsMinLimitCount ==
    (last.op = "list" /\ last.code = 200)
    => /\ Len(last.body) = Min(last.arg, Len(collection))
       /\ \A i, j \in 1..Len(last.body) : i < j => last.body[i].id /= last.body[j].id
       /\ \A i \in 1..Len(last.body) :
              \E m \in 1..Len(collection) :
                  last.body[i] = PersonProfile(collection[m].id,
                                               collection[m].document,
                                               collection[m].metadata)

\* C10 witness: limit 1 on a store of two profiles returned one entry.
C10_Witness ==
    /\ last.op = "list" /\ last.code = 200
    /\ last.arg = 1 /\ Len(collection) = 2 /\ Len(last.body) = 1

\* What GET /stats reports as total_profiles on a working store.
TotalProfiles(coll) == GetStats(coll, FALSE).body.total_profiles

\* The ids GET /profiles/{id} finds on a working store.
Retrievable(coll) == {id \in IdInputs : GetProfilesId(coll, id, FALSE).code = 200}

\* C11: after any sequence of adds and deletes, total_profiles of Stats is
\* the number of profiles GetProfile can retrieve; a successful add raises it
\* by one and a delete of an existing id lowers it by one.
C11_StatsCountsRetrievable ==
    [][/\ TotalProfiles(collection') = Cardinality(Retrievable(collection'))
       /\ (last'.op = "stats" /\ last'.fault = "none")
             => last'.body.total_profiles = Cardinality(Retrievable(collection'))
       /\ (last'.op = "add" /\ last'.code = 200)
             => TotalProfiles(collection') = TotalProfiles(collection) + 1
       /\ (last'.op = "delete" /\ last'.code = 200 /\ HasId(collection, last'.arg))
             => TotalProfiles(collection') = TotalProfiles(collection) - 1]_vars

\* C11 witness: Stats answered 1 after two adds and one delete.
C11_Witness ==
    /\ last.op = "stats" /\ last.fault = "none"
    /\ last.body.total_profiles = 1
    /\ issued = 2

\* C12: AddProfile assigns an id that no stored profile has, and as long as
\* a profile is not deleted no operation changes what GetProfile returns
\* for its id (id, name, description, age, location, created_at).
C12_ProfileImmutable ==
    [][/\ (last'.op = "add" /\ last'.code = 200)
             => ~HasId(collection, last'.body.profile_id)
       /\ \A id \in IdInputs :
              LET before == GetProfilesId(collection, id, FALSE)
                  after == GetProfilesId(collection', id, FALSE)
              IN (/\ before.code = 200
                  /\ ~(last'.op = "delete" /\ last'.arg = id /\ last'.code = 200))
                 => after.code = 200 /\ after.body = before.body]_vars

\* C12 witness: a profile is still stored after a later add and the delete
\* of that later profile.
C12_Witness ==
    /\ last.op = "delete" /\ last.code = 200 /\ last.arg = IdNames[2]
    /\ issued = 2
    /\ HasId(collection, IdNames[1]) /\ ~HasId(collection, IdNames[2])

\* C13: while one request is inside its embedding or store call, another
\* request that has arrived can make progress: its handler can start.
C13_SlowCallBlocksOnlyItsRequest ==
    \A r, s \in Requests :
        (/\ r /= s
         /\ pc[r].stage \in {"embedding", "store"}
         /\ pc[s].stage = "arrived")
        => ENABLED Start(s)

IsZeroVector(v) == \A i \in 1..Len(v) : v[i] = 0

\* C14: compute_similarity returns a value in [0,1] for any two vectors, and
\* exactly 0 when either vector has zero norm.
C14_SimilarityInUnitRange ==
    direct.fn = "compute_similarity"
    => /\ direct.value.den > 0
       /\ direct.value.num >= 0
       /\ direct.value.num <= direct.value.den
       /\ (IsZeroVector(direct.embedding1) \/ IsZeroVector(direct.embedding2))
             => direct.value.num = 0

\* C14 witness: a zero vector compared with a non-zero one gave 0.
C14_Witness ==
    /\ direct.fn = "compute_similarity"
    /\ direct.embedding1 = <<0, 0>> /\ direct.embedding2 = <<3, 4>>
    /\ direct.value.num = 0

\* C15: generate_embedding raises without invoking the model when the text
\* is empty after trimming whitespace; for every other text it hands the
\* trimmed text to the model and returns the model's vector for it (or
\* raises the model's error).
C15_EmbedRejectsBlankText ==
    direct.fn = "generate_embedding"
    => IF \A i \in 1..Len(direct.text) : IsSpace(direct.text[i])
       THEN direct.raised /\ direct.encoded = <<>>
       ELSE /\ direct.encoded = <<Strip(direct.text)>>
            /\ IF direct.modelFails THEN direct.raised
               ELSE ~direct.raised /\ direct.value = Encode(Strip(direct.text))

\* C15 witness: a text of ten spaces was rejected before the model was called.
C15_Witness ==
    /\ direct.fn = "generate_embedding"
    /\ direct.text = DescBlank
    /\ direct.raised /\ direct.encoded = <<>>

\* C16 as stated: a search returns at most limit results, whenever
\* exclude_id is set the store is asked for limit+1 candidates, and no id
\* appears twice in the results.
C16_AsStated ==
    (last.op = "search" /\ last.code = 200)
    => /\ Len(last.body.results) <= last.arg.limit
       /\ last.arg.exclude_id /= None
             => last.calls = <<[fn |-> "query", n |-> last.arg.limit + 1]>>
       /\ \A i, j \in 1..Len(last.body.results) :
              i < j => last.body.results[i].id /= last.body.results[j].id

\* C16 amended: a search returns at most limit results; the store is asked
\* for limit+1 candidates when exclude_id is a non-empty string and for limit
\* candidates when it is absent or the empty string; no id appears twice in
\* the results.
C16_AtMostLimitResults ==
    (last.op = "search" /\ last.code = 200)
    => /\ Len(last.body.results) <= last.arg.limit
       /\ last.calls =
             <<[fn |-> "query",
                n |-> IF last.arg.exclude_id \in {None, {""}}
                      THEN last.arg.limit ELSE last.arg.limit + 1]>>
       /\ \A i, j \in 1..Len(last.body.results) :
              i < j => last.body.results[i].id /= last.body.results[j].id

\* C16 witness: with an exclude_id that no stored profile has, the store
\* returned limit+1 rows and the search returned limit of them.
C16_Witness ==
    /\ last.op = "search" /\ last.code = 200
    /\ last.arg.exclude_id = {"nobody"}
    /\ last.arg.limit = 1
    /\ last.calls = <<[fn |-> "query", n |-> 2]>>
    /\ Len(collection) = 2
    /\ neMatchesMissing
    /\ Len(last.body.results) = 1

\* An accepted POST /profiles whose embedding step failed: the description
\* is only whitespace, or the model raised.
EmbeddingStepFailed(l) ==
    /\ l.op = "add" /\ l.code /= 422
    /\ \/ l.fault = "embedding"
       \/ \A i \in 1..Len(l.arg.description) : IsSpace(l.arg.description[i])

\* C17: an AddProfile whose embedding step fails leaves the store unchanged:
\* no entry is inserted (the store is not called), the count is the same as
\* before, and the caller receives an error and no profile id.
C17_FailedEmbeddingAddsNothing ==
    [][EmbeddingStepFailed(last')
       => /\ collection' = collection
          /\ last'.calls = <<>>
          /\ TotalProfiles(collection') = TotalProfiles(collection)
          /\ Retrievable(collection') = Retrievable(collection)
          /\ last'.code = 500
          /\ "profile_id" \notin DOMAIN last'.body]_vars

\* C17 witness: a whitespace-only description was refused with 500 on a
\* store that holds a profile.
C17_Witness ==
    /\ last.op = "add" /\ last.code = 500
    /\ last.arg.description = DescBlank
    /\ last.fault = "embedding"
    /\ Len(collection) = 1

\* The ids that were assigned to a profile and are no longer stored: the ids
\* a delete has removed.
Deleted(coll, n) == {IdNames[k] : k \in 1..n} \ {coll[i].id : i \in 1..Len(coll)}

\* C18: once a delete has removed an existing profile, its id stays removed
\* whatever adds and deletes follow: GetProfile answers Not-Found for it,
\* neither a search nor a listing returns it, and no add assigns it again.
C18_DeletedStaysDeleted ==
    [][\A id \in IdInputs :
        /\ (/\ last'.op = "delete" /\ last'.code = 200 /\ last'.arg = id
            /\ HasId(collection, id))
              => id \in Deleted(collection', issued')
        /\ id \in Deleted(collection, issued) => id \in Deleted(collection', issued')
        /\ id \in Deleted(collection', issued')
              => /\ GetProfilesId(collection', id, FALSE).code = 404
                 /\ (last'.op = "get" /\ last'.arg = id) => last'.code = 404
                 /\ (last'.op = "search" /\ last'.code = 200)
                       => \A i \in 1..Len(last'.body.results) :
                              last'.body.results[i].id /= id
                 /\ (last'.op = "list" /\ last'.code = 200)
                       => \A i \in 1..Len(last'.body) : last'.body[i].id /= id
                 /\ (last'.op = "add" /\ last'.code = 200)
                       => last'.body.profile_id /= id]_vars

\* C18 witness: after the first profile was deleted, a later add received a
\* different id and the deleted id is still absent.
C18_Witness ==
    /\ last.op = "add" /\ last.code = 200
    /\ last.body.profile_id = IdNames[2]
    /\ IdNames[1] \in Deleted(collection, issued)
    /\ Len(collection) = 1

====
